---------------------------- MODULE Spec2Model ----------------------------
(***************************************************************************)
(* Model of src/app.py, the Streamlit script "Mahindra Workshop NRC VIN    *)
(* Belt Analysis": load two spreadsheets, resolve their columns, coerce    *)
(* and drop rows, sum the NRC VIN counts within a radius of each workshop, *)
(* rank the summary, size the map bubbles and export the summary.          *)
(*                                                                         *)
(* Reading of the source.  Lines 108-145 of app.py are stored with the     *)
(* escaping of the template the file was generated from ("{{", "}}",       *)
(* backslash-quote, a literal backslash-n).  The model reads them          *)
(* unescaped, i.e. summary.append({...}) and ordinary f-strings.           *)
(*                                                                         *)
(* Representation.                                                         *)
(*  - A string that the code lower-cases, strips or searches is a sequence *)
(*    of one-character strings: "Lat" is <<"L","a","t">>.                  *)
(*  - A spreadsheet cell is <<kind, v>>: <<"num", n>> a number,            *)
(*    <<"numstr", n>> text that parses as the number n, <<"text", k>> any  *)
(*    other text (k names it), <<"nan", 0>> an empty cell / NaN.           *)
(*  - Latitudes and longitudes are in hundredths of a degree, weights in   *)
(*    1/WeightScale units (float64 weights need not be whole), distances   *)
(*    in metres rounded up, so that for a whole number of km r the test    *)
(*    dist <= r of the code is dist_m <= 1000 * r.                         *)
(*  - A DataFrame is [columns |-> sequence of names, rows |-> sequence of  *)
(*    rows], a row a sequence of cells aligned with columns.               *)
(***************************************************************************)
EXTENDS Integers, Sequences, FiniteSets, TLC

VARIABLES
    source,       \* where the spreadsheets come from: "packaged", "uploaded", "none"
    file_ws,      \* the workshops spreadsheet as read_excel returns it
    file_proj,    \* the projections spreadsheet as read_excel returns it
    slider,       \* the value of the sidebar slider widget
    pc,           \* position of the script run
    df_ws,        \* the script's df_ws
    df_proj,      \* the script's df_proj
    cols,         \* the eight resolved column names (or None)
    missing,      \* the script's list missing
    diag,         \* what st.error / st.write put on the page at the stop
    radius_km,    \* the script's radius_km
    summary,      \* the script's list summary
    summary_df,   \* the script's summary_df (its rows, in order)
    circles,      \* radius_m of the folium.Circle drawn per summary row
    csv,          \* rows handed to the download button
    error,        \* the exception that ended the run, "" when none
    rs_pc,        \* column-resolver harness: position
    rs_columns,   \* column-resolver harness: the header row
    rs_candidates,\* column-resolver harness: the candidate list
    rs_result     \* column-resolver harness: what find_col returned

vars == << source, file_ws, file_proj, slider, pc, df_ws, df_proj, cols, missing,
           diag, radius_km, summary, summary_df, circles, csv, error,
           rs_pc, rs_columns, rs_candidates, rs_result >>

mainVars == << source, file_ws, file_proj, slider, pc, df_ws, df_proj, cols, missing,
               diag, radius_km, summary, summary_df, circles, csv, error >>

rsVars == << rs_pc, rs_columns, rs_candidates, rs_result >>

---------------------------------------------------------------------------
(* Bounds of the model. *)

\* longest header row the column-resolver harness enumerates
MaxCols == 3

\* most workshop rows in a spreadsheet
MaxWs == 2

\* most projection rows in a spreadsheet
MaxProj == 2

\* weight units per 1.0 (fixed-point resolution of the float64 weights)
WeightScale == 2

---------------------------------------------------------------------------
(* Strings. *)

\* Python's None
None == << "<None>" >>

LowerMap ==
    [c \in {"A","B","C","D","E","F","G","H","I","J","K","L","M","N","O","P","Q",
            "R","S","T","U","V","W","X","Y","Z"} |->
        CASE c = "A" -> "a" [] c = "B" -> "b" [] c = "C" -> "c" [] c = "D" -> "d"
          [] c = "E" -> "e" [] c = "F" -> "f" [] c = "G" -> "g" [] c = "H" -> "h"
          [] c = "I" -> "i" [] c = "J" -> "j" [] c = "K" -> "k" [] c = "L" -> "l"
          [] c = "M" -> "m" [] c = "N" -> "n" [] c = "O" -> "o" [] c = "P" -> "p"
          [] c = "Q" -> "q" [] c = "R" -> "r" [] c = "S" -> "s" [] c = "T" -> "t"
          [] c = "U" -> "u" [] c = "V" -> "v" [] c = "W" -> "w" [] c = "X" -> "x"
          [] c = "Y" -> "y" [] c = "Z" -> "z"]

\* str.lower()
lower(s) == [i \in 1..Len(s) |-> IF s[i] \in DOMAIN LowerMap THEN LowerMap[s[i]] ELSE s[i]]

\* str.strip(): leading and trailing blanks removed
strip(s) ==
    LET solid == {i \in 1..Len(s) : s[i] # " "}
        Lo == CHOOSE i \in solid : \A j \in solid : i <= j
        Hi == CHOOSE i \in solid : \A j \in solid : i >= j
    IN  IF solid = {} THEN << >> ELSE SubSeq(s, Lo, Hi)

\* Python's  sub in s  for strings
contains(s, sub) ==
    \E k \in 0..(Len(s) - Len(sub)) : SubSeq(s, k + 1, k + Len(sub)) = sub

\* lines 36-37: the header row with every name stripped
NormalizeColumns(columns) == [i \in 1..Len(columns) |-> strip(columns[i])]

MinOf(S) == CHOOSE x \in S : \A y \in S : x <= y
MaxOf(S) == CHOOSE x \in S : \A y \in S : x >= y

---------------------------------------------------------------------------
(* find_col, lines 39-51. *)

\* line 40: cols = {col.lower(): col ...}; a later column with the same
\* lower-cased name replaces an earlier one
ColsDictGet(columns, key) ==
    columns[MaxOf({j \in 1..Len(columns) : lower(columns[j]) = key})]

ColsDictHas(columns, key) == \E j \in 1..Len(columns) : lower(columns[j]) = key

\* lines 41-43
ExactTier(columns, candidates) ==
    {i \in 1..Len(candidates) : \E j \in 1..Len(columns) : columns[j] = candidates[i]}

\* lines 44-46
LowerTier(columns, candidates) ==
    {i \in 1..Len(candidates) : ColsDictHas(columns, lower(candidates[i]))}

\* lines 47-50
SubstringTier(columns, candidates) ==
    {j \in 1..Len(columns) :
        \E i \in 1..Len(candidates) : contains(lower(columns[j]), lower(candidates[i]))}

\* find_col as it would be if the exact and the case-insensitive tier walked
\* the columns first, as the substring tier does
find_col_by_column_order(columns, candidates) ==
    LET exactCols == {j \in 1..Len(columns) :
                        \E i \in 1..Len(candidates) : columns[j] = candidates[i]}
        lowerCols == {j \in 1..Len(columns) :
                        \E i \in 1..Len(candidates) :
                            lower(columns[j]) = lower(candidates[i])}
    IN  IF exactCols # {} THEN columns[MinOf(exactCols)]
        ELSE IF lowerCols # {} THEN columns[MinOf(lowerCols)]
        ELSE IF SubstringTier(columns, candidates) # {}
        THEN columns[MinOf(SubstringTier(columns, candidates))]
        ELSE None

find_col(columns, candidates) ==
    IF ExactTier(columns, candidates) # {}
    THEN candidates[MinOf(ExactTier(columns, candidates))]
    ELSE IF LowerTier(columns, candidates) # {}
    THEN ColsDictGet(columns, lower(candidates[MinOf(LowerTier(columns, candidates))]))
    ELSE IF SubstringTier(columns, candidates) # {}
    THEN columns[MinOf(SubstringTier(columns, candidates))]
    ELSE None

\* the candidate lists of the call sites, lines 53-61
ws_name_candidates ==
    << <<"M","a","b","i","n","d","r","a"," ","W","o","r","k","s","h","o","p"," ","L","o","c","a","t","i","o","n">>,
       <<"M","a","h","i","n","d","r","a"," ","W","o","r","k","s","h","o","p"," ","L","o","c","a","t","i","o","n">>,
       <<"W","o","r","k","s","h","o","p">>,
       <<"w","o","r","k","s","h","o","p">> >>

ws_lat_candidates ==
    << <<"L","a","t","i","t","u","d","e">>,
       <<"L","a","t">> >>

ws_lon_candidates ==
    << <<"L","o","n","g","i","t","u","d","e">>,
       <<"L","o","n">>,
       <<"L","n","g">> >>

ws_pin_candidates ==
    << <<"P","i","n","c","o","d","e">>,
       <<"P","i","n"," ","C","o","d","e">>,
       <<"p","i","n","c","o","d","e">> >>

proj_pin_candidates ==
    << <<"C","u","s","t","o","m","e","r"," ","P","i","n"," ","C","o","d","e">>,
       <<"P","i","n","c","o","d","e">>,
       <<"P","i","n"," ","C","o","d","e">>,
       <<"p","i","n","c","o","d","e">> >>

proj_lat_candidates ==
    << <<"L","a","t","i","t","u","d","e">>,
       <<"L","a","t">> >>

proj_lon_candidates ==
    << <<"L","o","n","g","i","t","u","d","e">>,
       <<"L","o","n">>,
       <<"L","n","g">> >>

nrc_vin_candidates ==
    << <<"N","R","C"," ","V","I","N"," ","C","o","u","n","t">>,
       <<"N","R","C","_","V","I","N","_","C","o","u","n","t">>,
       <<"N","R","C"," ","V","I","N">>,
       <<"N","R","C","_","V","i","n">>,
       <<"N","R","C","_","P","r","o","j","e","c","t","e","d","_","R","O","_","Y","e","a","r","l","y">>,
       <<"N","R","C","_","P","r","o","j","e","c","t","e","d","_","R","O">>,
       <<"N","R","C"," ","V","I","N">> >>

---------------------------------------------------------------------------
(* The column-resolver harness: find_col applied to enumerated header rows. *)

\* header names as they may stand in a spreadsheet, before stripping
HeaderPool ==
    { <<"L","a","t">>,
      <<"l","a","t"," ">>,
      <<"L","A","T">>,
      <<"L","a","t","i","t","u","d","e">>,
      <<"W","S"," ","l","a","t","i","t","u","d","e">>,
      <<"L","n","g">>,
      <<"N","a","m","e">> }

CandidatePool == { ws_lat_candidates, ws_lon_candidates, ws_pin_candidates }

SeqsUpTo(S, n) == UNION { [1..k -> S] : k \in 0..n }

\* the main script's variables while the harness runs
MainIdle ==
    /\ source = "none"
    /\ file_ws = [columns |-> << >>, rows |-> << >>]
    /\ file_proj = [columns |-> << >>, rows |-> << >>]
    /\ slider = 0
    /\ pc = "idle"
    /\ df_ws = [columns |-> << >>, rows |-> << >>]
    /\ df_proj = [columns |-> << >>, rows |-> << >>]
    /\ cols = << >>
    /\ missing = << >>
    /\ diag = << >>
    /\ radius_km = 0
    /\ summary = << >>
    /\ summary_df = << >>
    /\ circles = << >>
    /\ csv = << >>
    /\ error = ""

InitResolve ==
    /\ MainIdle
    /\ rs_pc = "raw"
    /\ rs_columns \in SeqsUpTo(HeaderPool, MaxCols)
    /\ rs_candidates \in CandidatePool
    /\ rs_result = None

\* lines 36-37
ResolveNormalize ==
    /\ rs_pc = "raw"
    /\ rs_columns' = NormalizeColumns(rs_columns)
    /\ rs_pc' = "normalized"
    /\ UNCHANGED << rs_candidates, rs_result >>
    /\ UNCHANGED mainVars

\* a call of find_col, lines 53-61
ResolveFind ==
    /\ rs_pc = "normalized"
    /\ rs_result' = find_col(rs_columns, rs_candidates)
    /\ rs_pc' = "resolved"
    /\ UNCHANGED << rs_columns, rs_candidates >>
    /\ UNCHANGED mainVars

NextResolve == ResolveNormalize \/ ResolveFind

SpecResolve == InitResolve /\ [][NextResolve]_vars

---------------------------------------------------------------------------
(* DataFrames and cells. *)

NaN == << "nan", 0 >>

\* the empty string '' that ws.get(..., '') defaults to
EmptyStr == << "empty", 0 >>

\* the names the script gives the columns it uses (lines 76-77, 106)
n_workshop_name == <<"w","o","r","k","s","h","o","p","_","n","a","m","e">>
n_lat == <<"l","a","t">>
n_lon == <<"l","o","n">>
n_pincode == <<"p","i","n","c","o","d","e">>
n_nrc_vin_count == <<"n","r","c","_","v","i","n","_","c","o","u","n","t">>
n_dist_km_to_ws == <<"d","i","s","t","_","k","m","_","t","o","_","w","s">>

EmptyFrame == [columns |-> << >>, rows |-> << >>]

HasCol(df, name) == \E j \in 1..Len(df.columns) : df.columns[j] = name

ColIndex(df, name) == MinOf({j \in 1..Len(df.columns) : df.columns[j] = name})

\* row[name]
RowGet(df, row, name) == row[ColIndex(df, name)]

\* row.get(name, '')
RowGetOr(df, row, name) == IF HasCol(df, name) THEN RowGet(df, row, name) ELSE EmptyStr

\* df.rename(columns=mapping): mapping is the dict literal as a sequence of
\* <<key, value>>; of two equal keys the later stands
rename(df, mapping) ==
    LET hits(c) == {k \in 1..Len(mapping) : mapping[k][1] = c}
        newName(c) == IF hits(c) = {} THEN c ELSE mapping[MaxOf(hits(c))][2]
    IN  [df EXCEPT !.columns = [j \in 1..Len(df.columns) |-> newName(df.columns[j])]]

\* df[name] = values (one value per row): replaces the column, or appends it
SetColumn(df, name, values) ==
    IF HasCol(df, name)
    THEN [df EXCEPT !.rows =
            [r \in 1..Len(df.rows) |-> [df.rows[r] EXCEPT ![ColIndex(df, name)] = values[r]]]]
    ELSE [columns |-> Append(df.columns, name),
          rows |-> [r \in 1..Len(df.rows) |-> Append(df.rows[r], values[r])]]

\* pd.to_numeric(cell, errors='coerce'): numbers and numeric text become
\* numbers, everything else NaN
to_numeric(cell) == IF cell[1] \in {"num", "numstr"} THEN << "num", cell[2] >> ELSE NaN

\* .fillna(0)
fillna0(cell) == IF cell = NaN THEN << "num", 0 >> ELSE cell

\* df[name] = pd.to_numeric(df[name], errors='coerce')
CoerceColumn(df, name) ==
    SetColumn(df, name, [r \in 1..Len(df.rows) |-> to_numeric(RowGet(df, df.rows[r], name))])

\* line 84
CoerceWeight(df) ==
    SetColumn(df, n_nrc_vin_count,
        [r \in 1..Len(df.rows) |-> fillna0(to_numeric(RowGet(df, df.rows[r], n_nrc_vin_count)))])

\* df.dropna(subset=['lat','lon']).reset_index(drop=True)
dropna(df) ==
    [df EXCEPT !.rows =
        SelectSeq(df.rows,
            LAMBDA row : RowGet(df, row, n_lat) # NaN /\ RowGet(df, row, n_lon) # NaN)]

---------------------------------------------------------------------------
(* haversine_km, lines 89-97. *)

\* The formula of lines 90-97 (R = 6371.0) evaluated in float64 for every
\* pair of the coordinates the model uses, in metres rounded up; arguments
\* in hundredths of a degree.  95.00 degrees of latitude is out of range:
\* the formula is defined there all the same.
HaversineTable ==
    (<<1297,7759,1297,7759>> :> 0) @@ (<<1297,7759,1297,7763>> :> 4335) @@ (<<1297,7759,1301,7759>> :> 4448) @@
    (<<1297,7759,1301,7763>> :> 6211) @@ (<<1297,7759,9500,7759>> :> 9121320) @@ (<<1297,7759,9500,7763>> :> 9121320) @@
    (<<1297,7763,1297,7759>> :> 4335) @@ (<<1297,7763,1297,7763>> :> 0) @@ (<<1297,7763,1301,7759>> :> 6211) @@
    (<<1297,7763,1301,7763>> :> 4448) @@ (<<1297,7763,9500,7759>> :> 9121320) @@ (<<1297,7763,9500,7763>> :> 9121320) @@
    (<<1301,7759,1297,7759>> :> 4448) @@ (<<1301,7759,1297,7763>> :> 6211) @@ (<<1301,7759,1301,7759>> :> 0) @@
    (<<1301,7759,1301,7763>> :> 4334) @@ (<<1301,7759,9500,7759>> :> 9116873) @@ (<<1301,7759,9500,7763>> :> 9116872) @@
    (<<1301,7763,1297,7759>> :> 6211) @@ (<<1301,7763,1297,7763>> :> 4448) @@ (<<1301,7763,1301,7759>> :> 4334) @@
    (<<1301,7763,1301,7763>> :> 0) @@ (<<1301,7763,9500,7759>> :> 9116872) @@ (<<1301,7763,9500,7763>> :> 9116873) @@
    (<<9500,7759,1297,7759>> :> 9121320) @@ (<<9500,7759,1297,7763>> :> 9121320) @@ (<<9500,7759,1301,7759>> :> 9116873) @@
    (<<9500,7759,1301,7763>> :> 9116872) @@ (<<9500,7759,9500,7759>> :> 0) @@ (<<9500,7759,9500,7763>> :> 388) @@
    (<<9500,7763,1297,7759>> :> 9121320) @@ (<<9500,7763,1297,7763>> :> 9121320) @@ (<<9500,7763,1301,7759>> :> 9116872) @@
    (<<9500,7763,1301,7763>> :> 9116873) @@ (<<9500,7763,9500,7759>> :> 388) @@ (<<9500,7763,9500,7763>> :> 0)

haversine_km(lat1, lon1, lat2, lon2) == HaversineTable[<< lat1, lon1, lat2, lon2 >>]

---------------------------------------------------------------------------
(* The summary loop, lines 102-114. *)

RECURSIVE SumSeq(_)
SumSeq(s) == IF s = << >> THEN 0 ELSE Head(s) + SumSeq(Tail(s))

\* Python's int(): truncation toward zero of a / b, b > 0
TruncDiv(a, b) == IF a >= 0 THEN a \div b ELSE -((-a) \div b)

\* line 106 as it would be if df_proj were also re-sorted by the new
\* distances, farthest first
WithDistancesSorted(df, ws_lat, ws_lon) ==
    LET d == SetColumn(df, n_dist_km_to_ws,
                [r \in 1..Len(df.rows) |->
                    << "num", haversine_km(ws_lat, ws_lon,
                                           RowGet(df, df.rows[r], n_lat)[2],
                                           RowGet(df, df.rows[r], n_lon)[2]) >>])
        n == Len(d.rows)
        dist(r) == RowGet(d, d.rows[r], n_dist_km_to_ws)[2]
        order == CHOOSE p \in [1..n -> 1..n] :
                    /\ \A a, b \in 1..n : a # b => p[a] # p[b]
                    /\ \A a, b \in 1..n :
                          a < b => \/ dist(p[a]) > dist(p[b])
                                   \/ (dist(p[a]) = dist(p[b]) /\ p[a] < p[b])
    IN  [d EXCEPT !.rows = [r \in 1..n |-> d.rows[order[r]]]]

\* line 106: df_proj['dist_km_to_ws'] = df_proj.apply(haversine_km(ws, r), axis=1)
WithDistances(df, ws_lat, ws_lon) ==
    SetColumn(df, n_dist_km_to_ws,
        [r \in 1..Len(df.rows) |->
            << "num", haversine_km(ws_lat, ws_lon,
                                   RowGet(df, df.rows[r], n_lat)[2],
                                   RowGet(df, df.rows[r], n_lon)[2]) >>])

\* line 107 as it would be with  <  for  <=
WithinRadiusExclusive(df, radius) ==
    SelectSeq(df.rows, LAMBDA row : RowGet(df, row, n_dist_km_to_ws)[2] < 1000 * radius)

\* df_proj.loc[df_proj['dist_km_to_ws'] <= radius_km, 'nrc_vin_count'], in weight units
WithinRadius(df, radius) ==
    SelectSeq(df.rows, LAMBDA row : RowGet(df, row, n_dist_km_to_ws)[2] <= 1000 * radius)

\* line 107: int(....sum())
total_vins(df, radius) ==
    LET rows == WithinRadius(df, radius)
    IN  TruncDiv(SumSeq([r \in 1..Len(rows) |-> RowGet(df, rows[r], n_nrc_vin_count)[2]]),
                 WeightScale)

\* lines 108-114
SummaryEntry(dfw, ws, total) ==
    [workshop_name |-> RowGetOr(dfw, ws, n_workshop_name),
     workshop_pincode |-> RowGetOr(dfw, ws, n_pincode),
     workshop_lat |-> RowGet(dfw, ws, n_lat)[2],
     workshop_lon |-> RowGet(dfw, ws, n_lon)[2],
     nrc_vin_count_within_radius |-> total]

\* lines 104-114: the loop from workshop row i on; the result is the final
\* df_proj and the list summary
RECURSIVE SummaryLoop(_, _, _, _, _)
SummaryLoop(i, dfw, dfp, radius, acc) ==
    IF i > Len(dfw.rows)
    THEN [df_proj |-> dfp, summary |-> acc]
    ELSE LET ws == dfw.rows[i]
             dfp2 == WithDistances(dfp, RowGet(dfw, ws, n_lat)[2], RowGet(dfw, ws, n_lon)[2])
         IN  SummaryLoop(i + 1, dfw, dfp2, radius,
                         Append(acc, SummaryEntry(dfw, ws, total_vins(dfp2, radius))))

---------------------------------------------------------------------------
(* Ranking, line 116. *)

Perms(n) == {p \in [1..n -> 1..n] : \A i, j \in 1..n : i # j => p[i] # p[j]}

\* sort_values(..., ascending=False) with the default kind='quicksort', which
\* is not a stable sort: rows with equal keys may come out in any order
sort_values(rows) ==
    { [i \in 1..Len(rows) |-> rows[p[i]]] :
        p \in {q \in Perms(Len(rows)) :
                \A i \in 1..(Len(rows) - 1) :
                    rows[q[i]].nrc_vin_count_within_radius
                        >= rows[q[i + 1]].nrc_vin_count_within_radius} }

---------------------------------------------------------------------------
(* Bubble sizes, lines 137-140. *)

MinSize == 200
MaxExtra == 8000

\* floor of the square root of n >= 0, by bisection on lo <= root < hi
RECURSIVE ISqrtBetween(_, _, _)
ISqrtBetween(n, lo, hi) ==
    IF hi - lo <= 1 THEN lo
    ELSE LET mid == (lo + hi) \div 2
         IN  IF mid * mid <= n THEN ISqrtBetween(n, mid, hi) ELSE ISqrtBetween(n, lo, mid)

ISqrt(n) == ISqrtBetween(n, 0, 46341)

Abs(x) == IF x < 0 THEN -x ELSE x

\* line 137
max_vins_of(rows) ==
    IF rows = << >> THEN 0
    ELSE MaxOf({rows[i].nrc_vin_count_within_radius : i \in 1..Len(rows)})

\* (count / max_vins)**0.5 is a real number only when count / max_vins >= 0;
\* otherwise int() of it raises
BubbleDefined(count, max_vins) ==
    max_vins = 0 \/ (count >= 0 /\ max_vins > 0) \/ (count <= 0 /\ max_vins < 0)

\* line 140: int(8000 * (count / max_vins)**0.5) is the largest k with
\* k*k*|max_vins| <= 8000*8000*|count|
radius_m(count, max_vins) ==
    MinSize + (IF max_vins = 0 THEN 0
               ELSE ISqrt((MaxExtra * MaxExtra * Abs(count)) \div Abs(max_vins)))

---------------------------------------------------------------------------
(* The spreadsheets the model runs the script on. *)

Num(n) == << "num", n >>
NumStr(n) == << "numstr", n >>
Text(k) == << "text", k >>

\* a whole weight w, and a weight strictly between w and w + 1
Whole(w) == Num(w * WeightScale)
Fraction(w) == Num(w * WeightScale + 1)

\* workshop rows under the header  Workshop, Latitude, Longitude, Pincode
WsRowPool ==
    { << Text(1), Num(1297), Num(7759), Num(700001) >>,      \* A, at 12.97 N 77.59 E
      << Text(2), NumStr(1301), Num(7759), Num(700002) >>,   \* B, 4.4 km north of A
      << Text(3), NaN, Num(7759), Num(700003) >>,            \* latitude cell empty
      << Text(4), Num(9500), Num(7759), Num(700004) >> }     \* latitude 95.00

\* projection rows under  Customer Pin Code, Latitude, Longitude, NRC VIN Count
\* whose coordinates vary
ProjGeoPool ==
    { << Num(700001), Num(1297), Num(7759), Whole(2) >>,     \* at A
      << Num(700002), Num(1301), Num(7759), Fraction(2) >>,  \* at B, weight not whole
      << Num(700003), Text(0), Num(7759), Whole(2) >>,       \* latitude is text
      << Num(700004), Num(9500), Num(7763), Whole(2) >> }    \* latitude 95.00

\* projection rows whose weights vary
ProjWeightPool ==
    { << Num(700001), Num(1297), Num(7759), Whole(2) >>,
      << Num(700002), Num(1301), Num(7759), Fraction(2) >>,
      << Num(700002), Num(1301), Num(7759), Whole(-1) >>,    \* negative weight at B
      << Num(700001), Num(1297), Num(7759), NumStr(-2 * WeightScale) >>, \* "-2" at A
      << Num(700001), Num(1297), Num(7759), Text(0) >>,      \* weight is text
      << Num(700002), Num(1301), Num(7759), NaN >> }         \* weight cell empty

WsColumns ==
    << <<"W","o","r","k","s","h","o","p">>,
       <<"L","a","t","i","t","u","d","e">>,
       <<"L","o","n","g","i","t","u","d","e">>,
       <<"P","i","n","c","o","d","e">> >>

ProjColumns ==
    << <<"C","u","s","t","o","m","e","r"," ","P","i","n"," ","C","o","d","e">>,
       <<"L","a","t","i","t","u","d","e">>,
       <<"L","o","n","g","i","t","u","d","e">>,
       <<"N","R","C"," ","V","I","N"," ","C","o","u","n","t">> >>

\* workshop spreadsheets with other headers, one row each
WsLayouts ==
    { [columns |-> WsColumns,
       rows |-> << << Text(1), Num(1297), Num(7759), Num(700001) >> >>],
      [columns |-> << <<"w","o","r","k","s","h","o","p"," ","n","a","m","e"," ">>,
                      <<"l","a","t"," ">>,
                      <<" ","L","N","G">> >>,
       rows |-> << << Text(1), Num(1297), Num(7759) >> >>],
      [columns |-> << <<"N","a","m","e">>, <<"L","a","t">>, <<"L","o","n">> >>,
       rows |-> << << Text(1), Num(1297), Num(7759) >> >>],
      [columns |-> << <<"W","o","r","k","s","h","o","p">>, <<"Y">>, <<"X">>,
                      <<"P","i","n"," ","C","o","d","e">> >>,
       rows |-> << << Text(1), Num(1297), Num(7759), Num(700001) >> >>] }

\* projection spreadsheets with other headers, one row each
ProjLayouts ==
    { [columns |-> ProjColumns,
       rows |-> << << Num(700001), Num(1297), Num(7759), Whole(2) >> >>],
      [columns |-> << <<"l","a","t">>, <<"l","o","n">>,
                      <<"N","R","C","_","P","r","o","j","e","c","t","e","d","_","R","O","_","Y","e","a","r","l","y">> >>,
       rows |-> << << Num(1297), Num(7759), Whole(2) >> >>],
      [columns |-> << <<"P","i","n","c","o","d","e">>,
                      <<"L","a","t","i","t","u","d","e">>,
                      <<"L","o","n","g","i","t","u","d","e">>,
                      <<"C","o","u","n","t">> >>,
       rows |-> << << Num(700001), Num(1297), Num(7759), Whole(2) >> >>],
      [columns |-> << <<"L","a","t">>, <<"V","I","N","s">> >>,
       rows |-> << << Num(1297), Whole(2) >> >>] }

---------------------------------------------------------------------------
(* The script run. *)

NoCols ==
    [ws_name_col |-> None, ws_lat_col |-> None, ws_lon_col |-> None, ws_pin_col |-> None,
     proj_pin_col |-> None, proj_lat_col |-> None, proj_lon_col |-> None,
     nrc_vin_col |-> None]

NoDiag == [kind |-> "", fields |-> << >>, ws_columns |-> << >>, proj_columns |-> << >>]

\* the slider of line 100: min 0, max 20, default 5, step 1
SliderMin == 0
SliderMax == 20
SliderDefault == 5

\* the slider positions the model moves to
RadiusChoices == {SliderMin, SliderDefault, SliderMax}

\* the script's variables at the start of a run
RunStart ==
    /\ pc = "start"
    /\ df_ws = EmptyFrame
    /\ df_proj = EmptyFrame
    /\ cols = NoCols
    /\ missing = << >>
    /\ diag = NoDiag
    /\ radius_km = 0
    /\ summary = << >>
    /\ summary_df = << >>
    /\ circles = << >>
    /\ csv = << >>
    /\ error = ""

RsIdle ==
    /\ rs_pc = "idle"
    /\ rs_columns = << >>
    /\ rs_candidates = << >>
    /\ rs_result = None

Init ==
    /\ \/ /\ source \in {"packaged", "uploaded"}
          /\ file_ws \in WsLayouts
          /\ file_proj \in ProjLayouts
       \/ /\ source = "packaged"
          /\ file_ws \in [columns : {WsColumns}, rows : SeqsUpTo(WsRowPool, MaxWs)]
          /\ file_proj \in [columns : {ProjColumns}, rows : SeqsUpTo(ProjGeoPool, MaxProj)]
       \/ /\ source = "packaged"
          /\ file_ws = [columns |-> WsColumns,
                        rows |-> << << Text(1), Num(1297), Num(7759), Num(700001) >>,
                                    << Text(2), NumStr(1301), Num(7759), Num(700002) >> >>]
          /\ file_proj \in [columns : {ProjColumns}, rows : SeqsUpTo(ProjWeightPool, MaxProj)]
       \/ /\ source = "none"
          /\ file_ws = EmptyFrame
          /\ file_proj = EmptyFrame
    /\ slider = SliderDefault
    /\ RunStart
    /\ RsIdle

\* lines 16-37: the spreadsheets are read and their header names stripped
LoadFiles ==
    /\ pc = "start"
    /\ source \in {"packaged", "uploaded"}
    /\ df_ws' = [file_ws EXCEPT !.columns = NormalizeColumns(file_ws.columns)]
    /\ df_proj' = [file_proj EXCEPT !.columns = NormalizeColumns(file_proj.columns)]
    /\ pc' = "loaded"
    /\ UNCHANGED << source, file_ws, file_proj, slider, cols, missing, diag, radius_km,
                    summary, summary_df, circles, csv, error >>
    /\ UNCHANGED rsVars

\* lines 24-33: no packaged files and not both uploaded: st.info, st.stop()
StopNoFiles ==
    /\ pc = "start"
    /\ source = "none"
    /\ diag' = [NoDiag EXCEPT !.kind = "upload"]
    /\ pc' = "stopped"
    /\ UNCHANGED << source, file_ws, file_proj, slider, df_ws, df_proj, cols, missing,
                    radius_km, summary, summary_df, circles, csv, error >>
    /\ UNCHANGED rsVars

\* lines 53-61
ResolvedCols(dfw, dfp) ==
    [ws_name_col |-> find_col(dfw.columns, ws_name_candidates),
     ws_lat_col |-> find_col(dfw.columns, ws_lat_candidates),
     ws_lon_col |-> find_col(dfw.columns, ws_lon_candidates),
     ws_pin_col |-> find_col(dfw.columns, ws_pin_candidates),
     proj_pin_col |-> find_col(dfp.columns, proj_pin_candidates),
     proj_lat_col |-> find_col(dfp.columns, proj_lat_candidates),
     proj_lon_col |-> find_col(dfp.columns, proj_lon_candidates),
     nrc_vin_col |-> find_col(dfp.columns, nrc_vin_candidates)]

\* lines 64-65: the fields the check walks, in order, with their labels
RequiredFields ==
    << << "workshop name", "ws_name_col" >>, << "workshop lat", "ws_lat_col" >>,
       << "workshop lon", "ws_lon_col" >>, << "proj lat", "proj_lat_col" >>,
       << "proj lon", "proj_lon_col" >>, << "nrc vin count", "nrc_vin_col" >> >>

\* lines 63-67 as they would be if the check also walked the pincode columns
MissingLabelsWithPincode(c) ==
    LET fields == RequiredFields \o << << "workshop pincode", "ws_pin_col" >>,
                                       << "proj pincode", "proj_pin_col" >> >>
        unresolved == SelectSeq(fields, LAMBDA f : c[f[2]] = None)
    IN  [i \in 1..Len(unresolved) |-> unresolved[i][1]]

\* lines 63-67
MissingLabels(c) ==
    LET unresolved == SelectSeq(RequiredFields, LAMBDA f : c[f[2]] = None)
    IN  [i \in 1..Len(unresolved) |-> unresolved[i][1]]

\* lines 53-67
ResolveColumns ==
    /\ pc = "loaded"
    /\ cols' = ResolvedCols(df_ws, df_proj)
    /\ missing' = MissingLabels(ResolvedCols(df_ws, df_proj))
    /\ pc' = "resolved"
    /\ UNCHANGED << source, file_ws, file_proj, slider, df_ws, df_proj, diag, radius_km,
                    summary, summary_df, circles, csv, error >>
    /\ UNCHANGED rsVars

\* lines 69-73: st.error names the fields, st.write lists both header rows, st.stop()
StopMissing ==
    /\ pc = "resolved"
    /\ missing # << >>
    /\ diag' = [kind |-> "missing", fields |-> missing,
                ws_columns |-> df_ws.columns, proj_columns |-> df_proj.columns]
    /\ pc' = "stopped"
    /\ UNCHANGED << source, file_ws, file_proj, slider, df_ws, df_proj, cols, missing,
                    radius_km, summary, summary_df, circles, csv, error >>
    /\ UNCHANGED rsVars

\* lines 76, 80-81, 86
PreparedWs(df, c) ==
    dropna(CoerceColumn(CoerceColumn(
        rename(df, << << c.ws_name_col, n_workshop_name >>, << c.ws_lat_col, n_lat >>,
                      << c.ws_lon_col, n_lon >>, << c.ws_pin_col, n_pincode >> >>),
        n_lat), n_lon))

\* lines 77, 82-84, 87
PreparedProj(df, c) ==
    dropna(CoerceWeight(CoerceColumn(CoerceColumn(
        rename(df, << << c.proj_pin_col, n_pincode >>, << c.proj_lat_col, n_lat >>,
                      << c.proj_lon_col, n_lon >>, << c.nrc_vin_col, n_nrc_vin_count >> >>),
        n_lat), n_lon)))

\* lines 75-87
Prepare ==
    /\ pc = "resolved"
    /\ missing = << >>
    /\ df_ws' = PreparedWs(df_ws, cols)
    /\ df_proj' = PreparedProj(df_proj, cols)
    /\ pc' = "prepared"
    /\ UNCHANGED << source, file_ws, file_proj, slider, cols, missing, diag, radius_km,
                    summary, summary_df, circles, csv, error >>
    /\ UNCHANGED rsVars

\* lines 99-114: the slider is read and the summary loop runs
Aggregate ==
    /\ pc = "prepared"
    /\ radius_km' = slider
    /\ LET out == SummaryLoop(1, df_ws, df_proj, slider, << >>)
       IN  /\ df_proj' = out.df_proj
           /\ summary' = out.summary
    /\ pc' = "aggregated"
    /\ UNCHANGED << source, file_ws, file_proj, slider, df_ws, cols, missing, diag,
                    summary_df, circles, csv, error >>
    /\ UNCHANGED rsVars

\* line 116 on a non-empty summary
Rank ==
    /\ pc = "aggregated"
    /\ summary # << >>
    /\ summary_df' \in sort_values(summary)
    /\ pc' = "ranked"
    /\ UNCHANGED << source, file_ws, file_proj, slider, df_ws, df_proj, cols, missing,
                    diag, radius_km, summary, circles, csv, error >>
    /\ UNCHANGED rsVars

\* line 116 on an empty summary: pd.DataFrame([]) has no columns, and
\* sort_values('nrc_vin_count_within_radius') raises KeyError
RankFails ==
    /\ pc = "aggregated"
    /\ summary = << >>
    /\ error' = "KeyError"
    /\ pc' = "error"
    /\ UNCHANGED << source, file_ws, file_proj, slider, df_ws, df_proj, cols, missing,
                    diag, radius_km, summary, summary_df, circles, csv >>
    /\ UNCHANGED rsVars

\* lines 137-140: the circle radii of the rows before the first row whose
\* size is undefined (all rows when there is none)
CircleRadii(rows) ==
    LET mx == max_vins_of(rows)
        bad == {i \in 1..Len(rows) :
                    ~BubbleDefined(rows[i].nrc_vin_count_within_radius, mx)}
        n == IF bad = {} THEN Len(rows) ELSE MinOf(bad) - 1
    IN  [i \in 1..n |-> radius_m(rows[i].nrc_vin_count_within_radius, mx)]

\* lines 122-147: every row gets its circle and the map is shown
DrawMap ==
    /\ pc = "ranked"
    /\ Len(CircleRadii(summary_df)) = Len(summary_df)
    /\ circles' = CircleRadii(summary_df)
    /\ pc' = "mapped"
    /\ UNCHANGED << source, file_ws, file_proj, slider, df_ws, df_proj, cols, missing,
                    diag, radius_km, summary, summary_df, csv, error >>
    /\ UNCHANGED rsVars

\* line 140 on a row with count / max_vins < 0: the power is not a real
\* number and int() raises
DrawMapFails ==
    /\ pc = "ranked"
    /\ Len(CircleRadii(summary_df)) < Len(summary_df)
    /\ circles' = CircleRadii(summary_df)
    /\ error' = "ValueError"
    /\ pc' = "error"
    /\ UNCHANGED << source, file_ws, file_proj, slider, df_ws, df_proj, cols, missing,
                    diag, radius_km, summary, summary_df, csv >>
    /\ UNCHANGED rsVars

\* lines 149-150
Export ==
    /\ pc = "mapped"
    /\ csv' = summary_df
    /\ pc' = "done"
    /\ UNCHANGED << source, file_ws, file_proj, slider, df_ws, df_proj, cols, missing,
                    diag, radius_km, summary, summary_df, circles, error >>
    /\ UNCHANGED rsVars

\* the user moves the slider of line 100: Streamlit runs the script again
\* from the top with the new widget value
MoveSlider ==
    /\ pc \in {"done", "error"}
    /\ \E r \in RadiusChoices :
          /\ r # slider
          /\ slider' = r
    /\ pc' = "start"
    /\ df_ws' = EmptyFrame
    /\ df_proj' = EmptyFrame
    /\ cols' = NoCols
    /\ missing' = << >>
    /\ diag' = NoDiag
    /\ radius_km' = 0
    /\ summary' = << >>
    /\ summary_df' = << >>
    /\ circles' = << >>
    /\ csv' = << >>
    /\ error' = ""
    /\ UNCHANGED << source, file_ws, file_proj >>
    /\ UNCHANGED rsVars

Next ==
    \/ LoadFiles
    \/ StopNoFiles
    \/ ResolveColumns
    \/ StopMissing
    \/ Prepare
    \/ Aggregate
    \/ Rank
    \/ RankFails
    \/ DrawMap
    \/ DrawMapFails
    \/ Export
    \/ MoveSlider

Spec == Init /\ [][Next]_vars

---------------------------------------------------------------------------
(* Properties. *)

\* the run has left the summary loop
AfterAggregation == pc \in {"aggregated", "ranked", "mapped", "done", "error"}

\* the run has coerced and dropped rows
AfterPrepare == pc = "prepared" \/ AfterAggregation

RECURSIVE SumOver(_, _)
SumOver(S, w) ==
    IF S = {} THEN 0
    ELSE LET x == CHOOSE y \in S : TRUE IN w[x] + SumOver(S \ {x}, w)

\* the rows of df_proj at most radius_km away from workshop row i
DemandWithin(i) ==
    {r \in 1..Len(df_proj.rows) :
        haversine_km(RowGet(df_ws, df_ws.rows[i], n_lat)[2],
                     RowGet(df_ws, df_ws.rows[i], n_lon)[2],
                     RowGet(df_proj, df_proj.rows[r], n_lat)[2],
                     RowGet(df_proj, df_proj.rows[r], n_lon)[2]) <= 1000 * radius_km}

\* the weight of every row of df_proj, in weight units
Weights == [r \in 1..Len(df_proj.rows) |-> RowGet(df_proj, df_proj.rows[r], n_nrc_vin_count)[2]]

\* C1 as claimed: every total equals the sum of the weights of the demand
\* points within radius_km (boundary included) of its workshop.
C1_TotalIsSum ==
    AfterAggregation =>
        /\ Len(summary) = Len(df_ws.rows)
        /\ \A i \in 1..Len(summary) :
              summary[i].nrc_vin_count_within_radius * WeightScale
                  = SumOver(DemandWithin(i), Weights)

\* C1 (amended): every total equals the sum of the weights of exactly the
\* demand points at distance <= radius_km of its workshop, truncated toward
\* zero to a whole number; with no demand points it is 0.
C1_TotalIsTruncatedSum ==
    AfterAggregation =>
        /\ Len(summary) = Len(df_ws.rows)
        /\ \A i \in 1..Len(summary) :
              LET exact == SumOver(DemandWithin(i), Weights)
                  total == summary[i].nrc_vin_count_within_radius
              IN  /\ IF exact >= 0
                     THEN total * WeightScale <= exact /\ exact < (total + 1) * WeightScale
                     ELSE total * WeightScale >= exact /\ exact > (total - 1) * WeightScale
                  /\ (df_proj.rows = << >> => total = 0)

\* C1 witness: at radius 0 a demand point at distance exactly 0 is counted,
\* and its weight is not whole, so the total is the truncated sum.
C1_Witness ==
    /\ pc = "aggregated"
    /\ radius_km = 0
    /\ \E i \in 1..Len(summary) :
          /\ summary[i].nrc_vin_count_within_radius > 0
          /\ summary[i].nrc_vin_count_within_radius * WeightScale
                 # SumOver(DemandWithin(i), Weights)

\* C2 as claimed: the summary has one entry per service location, and an
\* empty service-location collection gives an empty ranked summary, not an error.
C2_OneEntryPerWorkshop ==
    /\ AfterAggregation => Len(summary) = Len(df_ws.rows)
    /\ pc \in {"ranked", "mapped", "done"} => Len(summary_df) = Len(df_ws.rows)
    /\ ~(pc = "error" /\ error = "KeyError")

\* the total of workshop row i of df_ws at radius r
TotalAt(i, r) == SummaryLoop(1, df_ws, df_proj, r, << >>).summary[i].nrc_vin_count_within_radius

\* C3 as claimed: for the inputs as they reach the aggregation, a larger
\* radius never gives a service location a smaller total.
C3_MonotoneInRadius ==
    pc = "prepared" =>
        \A i \in 1..Len(df_ws.rows) :
            \A r1, r2 \in SliderMin..SliderMax :
                r1 <= r2 => TotalAt(i, r1) <= TotalAt(i, r2)

\* C4 as claimed: the ranked summary is in descending order of total, rows
\* with equal totals in their input order.
C4_StableDescending ==
    pc = "ranked" =>
        \E p \in Perms(Len(summary)) :
            /\ summary_df = [i \in 1..Len(summary) |-> summary[p[i]]]
            /\ \A i, j \in 1..Len(summary) :
                  i < j =>
                    \/ summary[p[i]].nrc_vin_count_within_radius
                           > summary[p[j]].nrc_vin_count_within_radius
                    \/ /\ summary[p[i]].nrc_vin_count_within_radius
                              = summary[p[j]].nrc_vin_count_within_radius
                       /\ p[i] < p[j]

\* the candidates that equal a column, that equal one up to case, and the
\* columns that contain a candidate up to case, for the harness's inputs
C5_ExactCands ==
    {i \in 1..Len(rs_candidates) :
        \E j \in 1..Len(rs_columns) : rs_columns[j] = rs_candidates[i]}
C5_LowerCands ==
    {i \in 1..Len(rs_candidates) :
        \E j \in 1..Len(rs_columns) : lower(rs_columns[j]) = lower(rs_candidates[i])}
C5_SubCols ==
    {j \in 1..Len(rs_columns) :
        \E i \in 1..Len(rs_candidates) :
            contains(lower(rs_columns[j]), lower(rs_candidates[i]))}

\* the columns that match some candidate at the exact and at the
\* case-insensitive tier
C5_ExactCols ==
    {j \in 1..Len(rs_columns) :
        \E i \in 1..Len(rs_candidates) : rs_columns[j] = rs_candidates[i]}
C5_LowerCols ==
    {j \in 1..Len(rs_columns) :
        \E i \in 1..Len(rs_candidates) : lower(rs_columns[j]) = lower(rs_candidates[i])}

\* C5 as claimed: the tiers are tried in order exact, case-insensitive,
\* substring, and the result is the first column, in column order, that
\* matches any candidate at the tier that produces it.
C5_FirstColumnOfTier ==
    rs_pc = "resolved" =>
        IF C5_ExactCols # {}
        THEN \E j \in C5_ExactCols :
                (\A k \in C5_ExactCols : j <= k) /\ rs_result = rs_columns[j]
        ELSE IF C5_LowerCols # {}
        THEN \E j \in C5_LowerCols :
                (\A k \in C5_LowerCols : j <= k) /\ rs_result = rs_columns[j]
        ELSE IF C5_SubCols # {}
        THEN \E j \in C5_SubCols :
                (\A k \in C5_SubCols : j <= k) /\ rs_result = rs_columns[j]
        ELSE rs_result = None

\* C5 (amended): the tiers are tried in order exact, case-insensitive,
\* substring, a lower tier only when the higher has no match.  The exact
\* tier returns the first candidate, in candidate order, that is a column;
\* the case-insensitive tier takes the first candidate, in candidate order,
\* that equals a column up to case and returns the last such column; the
\* substring tier returns the first column, in column order, that contains
\* a candidate up to case; with no match at all the result is None.
C5_TiersInOrder ==
    rs_pc = "resolved" =>
        IF C5_ExactCands # {}
        THEN \E i \in C5_ExactCands :
                (\A k \in C5_ExactCands : i <= k) /\ rs_result = rs_candidates[i]
        ELSE IF C5_LowerCands # {}
        THEN \E i \in C5_LowerCands :
                /\ \A k \in C5_LowerCands : i <= k
                /\ \E j \in 1..Len(rs_columns) :
                      /\ rs_result = rs_columns[j]
                      /\ lower(rs_columns[j]) = lower(rs_candidates[i])
                      /\ \A k \in (j + 1)..Len(rs_columns) :
                            lower(rs_columns[k]) # lower(rs_candidates[i])
        ELSE IF C5_SubCols # {}
        THEN \E j \in C5_SubCols :
                (\A k \in C5_SubCols : j <= k) /\ rs_result = rs_columns[j]
        ELSE rs_result = None

\* C5 witness: the exact tier answers, and with a column that is not the
\* first matching column of the header row.
C5_Witness ==
    /\ rs_pc = "resolved"
    /\ C5_ExactCols # {}
    /\ rs_result # rs_columns[MinOf(C5_ExactCols)]

\* the columns of df_proj other than the scratch column of line 106
C6_InputColumns == {j \in 1..Len(df_proj.columns) : df_proj.columns[j] # n_dist_km_to_ws}

C7_BubbleBoundedMonotone ==
    \A i \in 1..Len(circles) :
        LET total == summary_df[i].nrc_vin_count_within_radius
        IN  /\ MinSize <= circles[i]
            /\ circles[i] <= MinSize + MaxExtra
            /\ total = 0 => circles[i] = MinSize
            /\ (total = max_vins_of(summary_df) /\ total # 0) =>
                    circles[i] = MinSize + MaxExtra
            /\ \A j \in 1..Len(circles) :
                  total <= summary_df[j].nrc_vin_count_within_radius =>
                      circles[i] <= circles[j]

\* no header of the stripped header row contains a candidate, up to case
C8_Unresolvable(columns, candidates) ==
    \A j \in 1..Len(columns) :
        \A i \in 1..Len(candidates) :
            ~contains(lower(strip(columns[j])), lower(candidates[i]))

\* the required fields that cannot be resolved from the two spreadsheets
C8_Unresolved ==
    {f \in {"workshop name", "workshop lat", "workshop lon",
            "proj lat", "proj lon", "nrc vin count"} :
        CASE f = "workshop name" -> C8_Unresolvable(file_ws.columns, ws_name_candidates)
          [] f = "workshop lat" -> C8_Unresolvable(file_ws.columns, ws_lat_candidates)
          [] f = "workshop lon" -> C8_Unresolvable(file_ws.columns, ws_lon_candidates)
          [] f = "proj lat" -> C8_Unresolvable(file_proj.columns, proj_lat_candidates)
          [] f = "proj lon" -> C8_Unresolvable(file_proj.columns, proj_lon_candidates)
          [] f = "nrc vin count" -> C8_Unresolvable(file_proj.columns, nrc_vin_candidates)}

\* C8: when a required field cannot be resolved the run stops, its
\* diagnostic names exactly the unresolved required fields and lists the
\* columns of both datasets, and nothing after the check runs; an
\* unresolved pincode column alone does not stop the run.
C8_MissingColumnStops ==
    /\ (AfterPrepare \/ (pc = "resolved" /\ missing = << >>)) => C8_Unresolved = {}
    /\ (pc = "resolved" /\ C8_Unresolved = {}) => missing = << >>
    /\ (pc = "stopped" /\ source # "none") =>
          /\ C8_Unresolved # {}
          /\ diag.kind = "missing"
          /\ {diag.fields[i] : i \in 1..Len(diag.fields)} = C8_Unresolved
          /\ Len(diag.fields) = Cardinality(C8_Unresolved)
          /\ diag.ws_columns = NormalizeColumns(file_ws.columns)
          /\ diag.proj_columns = NormalizeColumns(file_proj.columns)
          /\ summary = << >> /\ summary_df = << >> /\ circles = << >> /\ csv = << >>
          /\ ~ENABLED Next

\* C8 witness: the run stopped on two unresolved required fields.
C8_Witness ==
    /\ pc = "stopped"
    /\ diag.kind = "missing"
    /\ Len(diag.fields) >= 2

\* C9 as claimed: every demand point that reaches the aggregation has a
\* weight >= 0 (an unparsable or missing weight having become 0).
C9_WeightsNonNegative ==
    AfterPrepare =>
        \A r \in 1..Len(df_proj.rows) :
            LET w == RowGet(df_proj, df_proj.rows[r], n_nrc_vin_count)
            IN  w[1] = "num" /\ w[2] >= 0

\* C10 as claimed: every service location and demand point that takes part
\* in the computation has a numeric latitude in [-90, 90] and a numeric
\* longitude in [-180, 180].
C10_CoordinatesInRange ==
    AfterPrepare =>
        /\ \A r \in 1..Len(df_ws.rows) :
              LET lat == RowGet(df_ws, df_ws.rows[r], n_lat)
                  lon == RowGet(df_ws, df_ws.rows[r], n_lon)
              IN  /\ lat[1] = "num" /\ -9000 <= lat[2] /\ lat[2] <= 9000
                  /\ lon[1] = "num" /\ -18000 <= lon[2] /\ lon[2] <= 18000
        /\ \A r \in 1..Len(df_proj.rows) :
              LET lat == RowGet(df_proj, df_proj.rows[r], n_lat)
                  lon == RowGet(df_proj, df_proj.rows[r], n_lon)
              IN  /\ lat[1] = "num" /\ -9000 <= lat[2] /\ lat[2] <= 9000
                  /\ lon[1] = "num" /\ -18000 <= lon[2] /\ lon[2] <= 18000

=============================================================================
